---- MODULE Spec2Model ----
(***************************************************************************)
(* Nexus operator gateway (titan-grid): the approval interlock of          *)
(* app/mcp_server.py, the executor it dispatches to, the ban operation of  *)
(* app/services/security_service.py and the HTTP tool endpoints of         *)
(* app/main.py, over one shared Redis server.                              *)
(*                                                                         *)
(* Every Redis command is one network round trip and the server is shared  *)
(* by every gateway process, so a handler is one step per store command;   *)
(* a handler with a single store command is a single step.                 *)
(***************************************************************************)
EXTENDS Integers, Sequences, FiniteSets, TLC

VARIABLES
    store,      \* Redis keys under APPROVAL_PREFIX: token -> entry
    blacklist,  \* Redis keys "blacklist:{ip}": ip -> entry
    pc,         \* per task: where its call_tool invocation stands
    loc,        \* per task: the locals of its call_tool invocation
    ret,        \* the result delivered by the call that returned last
    ncalls,     \* number of calls started so far
    issued,     \* history: token -> the actions submit stored under it, in order
    execLog,    \* history: every invocation of SecurityService.ban_ip
    expired     \* history: the pending records Redis expired, and when

vars == <<store, blacklist, pc, loc, ret, ncalls, issued, execLog, expired>>

----------------------------------------------------------------------------
(* Bounds *)

NumTasks == 2
NumTokens == 2
MaxCalls == 3

Tasks == 1..NumTasks
\* the values secrets.token_hex(4) can return
Tokens == 1..NumTokens

----------------------------------------------------------------------------
(* Program constants *)

APPROVAL_PREFIX == "nexus:approval:"
APPROVAL_TTL == 3600
\* the 3600 of `hours * 3600`
SECONDS_PER_HOUR == 3600
DANGEROUS_TOOLS == {"ban_suspicious_ip"}

\* the tools list_tools advertises
KnownTools ==
    {"check_system_health", "get_security_events", "analyze_attack_patterns",
     "ban_suspicious_ip", "approve_action", "list_pending_actions"}

ReadOnlyTools ==
    {"check_system_health", "get_security_events", "analyze_attack_patterns"}

\* the suffix of the key built from a missing token: f"{APPROVAL_PREFIX}{None}"
NoToken == 0

----------------------------------------------------------------------------
(* Input values *)

\* An address string, as the fields its separator splits it into.
IP4 == [sep |-> ".", parts |-> <<1, 2, 3, 4>>]
IP6 == [sep |-> ":", parts |-> <<8193, 3512, 0, 0, 0, 0, 0, 1>>]
BadOctet == [sep |-> ".", parts |-> <<1, 2, 3, 256>>]
BadText == [sep |-> "", parts |-> <<>>]
\* arguments.get("ip") of a dict without the key
NoneIp == [sep |-> "None", parts |-> <<>>]

IpStrings == {IP4, IP6, BadOctet, BadText}

\* the empty dict
EmptyArgs == <<>>

\* arguments of ban_suspicious_ip calls: valid, malformed, and without "ip"
BanArguments ==
    {[ip |-> IP4], [ip |-> IP6, hours |-> 2],
     [ip |-> BadOctet], [ip |-> BadText, hours |-> 2], [hours |-> 2]}

\* arguments of approve_action calls: every token, and no token at all
ApproveArguments == {[token |-> t] : t \in Tokens} \cup {EmptyArgs}

\* query parameters of POST /tools/ban (ip is any string, hours defaults to 1)
HttpBanParams == {[ip |-> IP4, hours |-> 1], [ip |-> BadText, hours |-> 1]}

\* what the collaborators behind the safe tools can answer
HealthStates == {"UP", "DOWN"}
EventCounts == {0, 1}

\* str(uuid.uuid4()): the timestamp is stored and listed, and nothing reads it
Uuids == {"u1"}

----------------------------------------------------------------------------
(* Python helpers *)

\* dict.get(key, default)
DictGet(d, k, default) == IF k \in DOMAIN d THEN d[k] ELSE default

IsIPv4(ip) ==
    /\ ip.sep = "."
    /\ Len(ip.parts) = 4
    /\ \A i \in 1..Len(ip.parts) : ip.parts[i] \in 0..255

IsIPv6(ip) ==
    /\ ip.sep = ":"
    /\ Len(ip.parts) = 8
    /\ \A i \in 1..Len(ip.parts) : ip.parts[i] \in 0..65535

\* the fields are counted and their ranges are not looked at
validate_ip_count(ip) ==
    \/ ip.sep = "." /\ Len(ip.parts) = 4
    \/ ip.sep = ":" /\ Len(ip.parts) = 8

\* ipaddress.ip_address(ip) does not raise ValueError
validate_ip(ip) == IsIPv4(ip) \/ IsIPv6(ip)

\* json.dumps of an arguments dict: its items, in key order
ArgKeyOrder == <<"ip", "hours", "token", "limit">>

ArgItems(d, keys) ==
    [i \in 1..Len(keys) |-> <<keys[i], d[keys[i]]>>]

json_dumps_args(d) ==
    ArgItems(d, SelectSeq(ArgKeyOrder, LAMBDA k : k \in DOMAIN d))

json_loads_args(s) ==
    [k \in {s[i][1] : i \in 1..Len(s)} |->
        s[CHOOSE i \in 1..Len(s) : s[i][1] = k][2]]

\* json.dumps(action_data)
json_dumps(a) ==
    << <<"name", a.name>>,
       <<"arguments", json_dumps_args(a.arguments)>>,
       <<"timestamp", a.timestamp>> >>

\* json.loads(raw_data)
json_loads(raw) ==
    [name |-> raw[1][2],
     arguments |-> json_loads_args(raw[2][2]),
     timestamp |-> raw[3][2]]

\* a text cut off after its first brace: no JSON document
NotJson == << <<"{">> >>

\* json.loads(raw) does not raise JSONDecodeError: every member of the
\* object is a key with its value
Deserializable(raw) == \A i \in 1..Len(raw) : Len(raw[i]) = 2

----------------------------------------------------------------------------
(* Redis *)

\* rec is history: which submit under the key wrote the value (0: none)
Absent == [present |-> FALSE, value |-> <<>>, ttl |-> 0, rec |-> 0]

Entry(v, ttl, r) == [present |-> TRUE, value |-> v, ttl |-> ttl, rec |-> r]

\* f"{APPROVAL_PREFIX}{token}"
Key(token) == <<APPROVAL_PREFIX, token>>

\* k.replace(APPROVAL_PREFIX, "")
TokenOf(key) == key[2]

\* a lookup in a table kept in process memory, which nothing ever expires
RedisGet_memory(key) ==
    IF key[1] = APPROVAL_PREFIX /\ key[2] \in DOMAIN store
                                /\ Len(issued[key[2]]) > 0
    THEN LET a == issued[key[2]][Len(issued[key[2]])]
         IN Entry(json_dumps([name |-> a.name, arguments |-> a.arguments,
                              timestamp |-> "u1"]),
                  0, Len(issued[key[2]]))
    ELSE Absent

\* GET key; a key no submit can have written holds nothing
RedisGet(key) ==
    IF key[1] = APPROVAL_PREFIX /\ key[2] \in DOMAIN store
    THEN store[key[2]]
    ELSE Absent

\* `not raw_data`: None or the empty string
Falsy(raw) == ~raw.present \/ raw.value = <<>>

\* KEYS nexus:approval:*
RedisKeys == {Key(t) : t \in {u \in DOMAIN store : store[u].present}}

----------------------------------------------------------------------------
(* Task state *)

NoLoc ==
    [key |-> Key(NoToken), raw |-> Absent, keys |-> {}, actions |-> <<>>,
     id |-> 0, removed |-> 0]

NoRet == [id |-> 0, name |-> "", arguments |-> EmptyArgs, by |-> "",
          result |-> [kind |-> "None"]]

\* a call as its result is delivered: its number, the tool and arguments it
\* was made with, and the function whose return statement produced the result
Call(id, name, arguments, by) ==
    [id |-> id, name |-> name, arguments |-> arguments, by |-> by]

Return(call, result) ==
    [id |-> call.id, name |-> call.name, arguments |-> call.arguments,
     by |-> call.by, result |-> result]

\* history: the record an execution acts on (none for a direct invocation)
Origin(via, token, rec) == [via |-> via, token |-> token, rec |-> rec]

Init ==
    /\ store = [t \in Tokens |-> Absent]
    /\ blacklist = [i \in IpStrings |-> Absent]
    /\ pc = [p \in Tasks |-> "idle"]
    /\ loc = [p \in Tasks |-> NoLoc]
    /\ ret = NoRet
    /\ ncalls = 0
    /\ issued = [t \in Tokens |-> <<>>]
    /\ execLog = {}
    /\ expired = {}

CanCall(p) == pc[p] = "idle" /\ ncalls < MaxCalls

----------------------------------------------------------------------------
(* SecurityService.ban_ip and execute_action *)

\* history: one more invocation of ban_ip by call number id, numbered among
\* those for the same record
Logged(origin, id, ip, duration) ==
    execLog \cup
      {[via |-> origin.via, token |-> origin.token, rec |-> origin.rec,
        id |-> id, ip |-> ip, duration |-> duration,
        n |-> 1 + Cardinality({e \in execLog :
                    /\ e.via = origin.via
                    /\ e.token = origin.token
                    /\ e.rec = origin.rec})]}

\* SET blacklist:{ip} banned EX duration; Redis rejects a non-positive expiry
\* and may be unreachable, and ban_ip turns either into an error string
ban_ip(ip, duration, up, origin, call) ==
    /\ execLog' = Logged(origin, call.id, ip, duration)
    /\ IF up /\ duration > 0
       THEN /\ blacklist' = [blacklist EXCEPT ![ip] = Entry(<<"banned">>, duration, 0)]
            /\ ret' = Return(call, [kind |-> "Banned", ip |-> ip,
                                    duration |-> duration])
       ELSE /\ blacklist' = blacklist
            /\ ret' = Return(call, [kind |-> "BanError", ip |-> ip])

\* what the read-only services answer for a tool
ServiceResults(name) ==
    CASE name = "check_system_health" ->
           {[kind |-> "Health", aegis |-> a, cryptex |-> c] :
               a \in HealthStates, c \in HealthStates}
      [] name = "get_security_events" ->
           {[kind |-> "Events", count |-> n] : n \in EventCounts}
      [] name = "analyze_attack_patterns" ->
           {[kind |-> "NoEvents"]} \cup
           {[kind |-> "Analysis", ok |-> b] : b \in BOOLEAN}

\* a name no branch matches is served like the first branch
ReadOnlyResults_default(name) ==
    IF name \in ReadOnlyTools THEN ServiceResults(name)
    ELSE ServiceResults("check_system_health")

\* the results execute_action gives for the names that write nothing: the
\* three read-only tools, and the ValueError of the final else, caught
ReadOnlyResults(name) ==
    IF name \in ReadOnlyTools
    THEN ServiceResults(name)
    ELSE {[kind |-> "SystemError", error |-> "Unknown tool", tool |-> name]}

\* execute_action(name, arguments)
execute_action(name, arguments, origin, call) ==
    IF name = "ban_suspicious_ip"
    THEN \E up \in BOOLEAN :
            ban_ip(DictGet(arguments, "ip", NoneIp),
                   DictGet(arguments, "hours", 1) * SECONDS_PER_HOUR,
                   up, origin, call)
    ELSE /\ \E r \in ReadOnlyResults(name) : ret' = Return(call, r)
         /\ UNCHANGED <<blacklist, execLog>>

----------------------------------------------------------------------------
(* call_tool *)

\* lines 115-119: whether the call ends with the validation error
\* the check of the address is left out
ValidationFails_never(name, arguments) == FALSE

\* lines 115-119: the address of a ban_suspicious_ip call is not one
ValidationFails(name, arguments) ==
    /\ name = "ban_suspicious_ip"
    /\ ~validate_ip(DictGet(arguments, "ip", NoneIp))

ValidationError(p, name, arguments) ==
    /\ CanCall(p)
    /\ ValidationFails(name, arguments)
    /\ ncalls' = ncalls + 1
    /\ ret' = Return(Call(ncalls + 1, name, arguments, "call_tool"),
                     [kind |-> "ValidationError",
                      ip |-> DictGet(arguments, "ip", NoneIp)])
    /\ UNCHANGED <<store, blacklist, pc, loc, issued, execLog, expired>>

\* no tool is held back for approval
Intercepted_none(name) == FALSE

\* every tool is held back for approval
Intercepted_all(name) == TRUE

\* line 122: the tools the interlock intercepts
Intercepted(name) == name \in DANGEROUS_TOOLS

\* lines 121-145: token, action_data, setex, notice
Submit(p, name, arguments, token, uuid) ==
    /\ CanCall(p)
    /\ ~ValidationFails(name, arguments)
    /\ Intercepted(name)
    /\ LET action_data == [name |-> name, arguments |-> arguments,
                           timestamp |-> uuid]
       IN /\ store' = [store EXCEPT ![token] =
                          Entry(json_dumps(action_data), APPROVAL_TTL,
                                Len(issued[token]) + 1)]
          /\ issued' = [issued EXCEPT ![token] =
                          Append(@, [name |-> name, arguments |-> arguments])]
    /\ ncalls' = ncalls + 1
    /\ ret' = Return(Call(ncalls + 1, name, arguments, "call_tool"),
                     [kind |-> "Pending", token |-> token])
    /\ UNCHANGED <<blacklist, pc, loc, execLog, expired>>

\* the error tells a token never issued from one used or expired
InvalidTokenResult_cause(key) ==
    [kind |-> IF TokenOf(key) \in Tokens /\ Len(issued[TokenOf(key)]) > 0
              THEN "UsedOrExpiredToken"
              ELSE "UnknownToken"]

\* line 154: "Error: Invalid, expired, or already used token."
InvalidTokenResult(key) == [kind |-> "InvalidToken"]

\* lines 148-156: GET key, and the error when there is nothing under it
ApproveGet(p, name, arguments) ==
    /\ CanCall(p)
    /\ ~ValidationFails(name, arguments)
    /\ ~Intercepted(name)
    /\ name = "approve_action"
    /\ ncalls' = ncalls + 1
    /\ LET token == DictGet(arguments, "token", NoToken)
           key == Key(token)
           raw_data == RedisGet(key)
       IN IF Falsy(raw_data)
          THEN /\ ret' = Return(Call(ncalls + 1, name, arguments, "call_tool"),
                                InvalidTokenResult(key))
               /\ UNCHANGED <<pc, loc>>
          ELSE IF ~Deserializable(raw_data.value)
          THEN /\ ret' = Return(Call(ncalls + 1, name, arguments, "call_tool"),
                                [kind |-> "Raised", error |-> "JSONDecodeError"])
               /\ UNCHANGED <<pc, loc>>
          ELSE /\ pc' = [pc EXCEPT ![p] = "approve_delete"]
               /\ loc' = [loc EXCEPT ![p] =
                     [NoLoc EXCEPT !.key = key, !.raw = raw_data,
                                   !.id = ncalls + 1]]
               /\ ret' = ret
    /\ UNCHANGED <<store, blacklist, issued, execLog, expired>>

\* the key is left in place
redis_delete_none(key) == store

\* line 157: DEL key; the number of keys removed is not looked at
redis_delete(key) == [store EXCEPT ![TokenOf(key)] = Absent]

\* DEL replies with the number of keys it removed; line 157 drops the reply
redis_delete_reply(key) == IF store[TokenOf(key)].present THEN 1 ELSE 0

ApproveDelete(p) ==
    /\ pc[p] = "approve_delete"
    /\ store' = redis_delete(loc[p].key)
    /\ loc' = [loc EXCEPT ![p].removed = redis_delete_reply(loc[p].key)]
    /\ pc' = [pc EXCEPT ![p] = "approve_exec"]
    /\ UNCHANGED <<blacklist, ret, ncalls, issued, execLog, expired>>

\* lines 156, 159: the deserialized action goes to execute_action
ApproveExec(p) ==
    /\ pc[p] = "approve_exec"
    /\ LET action == json_loads(loc[p].raw.value)
       IN execute_action(action.name, action.arguments,
                         Origin("approve", TokenOf(loc[p].key), loc[p].raw.rec),
                         Call(loc[p].id, "approve_action",
                              [token |-> TokenOf(loc[p].key)], "execute_action"))
    /\ pc' = [pc EXCEPT ![p] = "idle"]
    /\ loc' = [loc EXCEPT ![p] = NoLoc]
    /\ UNCHANGED <<store, ncalls, issued, expired>>

\* lines 161-164: KEYS, and the notice when there are none
ListKeys(p, name, arguments) ==
    /\ CanCall(p)
    /\ ~ValidationFails(name, arguments)
    /\ ~Intercepted(name)
    /\ name = "list_pending_actions"
    /\ ncalls' = ncalls + 1
    /\ LET keys == RedisKeys
       IN IF keys = {}
          THEN /\ ret' = Return(Call(ncalls + 1, name, arguments, "call_tool"),
                                [kind |-> "NoPending"])
               /\ UNCHANGED <<pc, loc>>
          ELSE /\ pc' = [pc EXCEPT ![p] = "list_get"]
               /\ loc' = [loc EXCEPT ![p] =
                     [NoLoc EXCEPT !.keys = keys, !.id = ncalls + 1]]
               /\ ret' = ret
    /\ UNCHANGED <<store, blacklist, issued, execLog, expired>>

\* lines 167-171: one GET per key; json.loads raises TypeError for None and
\* JSONDecodeError for a text that is no JSON, and call_tool catches neither
ListGet(p) ==
    /\ pc[p] = "list_get"
    /\ LET k == CHOOSE x \in loc[p].keys : \A y \in loc[p].keys : x[2] <= y[2]
           token == TokenOf(k)
           raw == RedisGet(k)
           left == loc[p].keys \ {k}
           actions == [t \in DOMAIN loc[p].actions \cup {token} |->
                          IF t = token THEN json_loads(raw.value)
                          ELSE loc[p].actions[t]]
       IN IF ~raw.present
          THEN /\ ret' = Return(Call(loc[p].id, "list_pending_actions",
                                     EmptyArgs, "call_tool"),
                                [kind |-> "Raised", error |-> "TypeError"])
               /\ pc' = [pc EXCEPT ![p] = "idle"]
               /\ loc' = [loc EXCEPT ![p] = NoLoc]
          ELSE IF ~Deserializable(raw.value)
          THEN /\ ret' = Return(Call(loc[p].id, "list_pending_actions",
                                     EmptyArgs, "call_tool"),
                                [kind |-> "Raised", error |-> "JSONDecodeError"])
               /\ pc' = [pc EXCEPT ![p] = "idle"]
               /\ loc' = [loc EXCEPT ![p] = NoLoc]
          ELSE IF left = {}
          THEN /\ ret' = Return(Call(loc[p].id, "list_pending_actions",
                                     EmptyArgs, "call_tool"),
                                [kind |-> "Listing", actions |-> actions])
               /\ pc' = [pc EXCEPT ![p] = "idle"]
               /\ loc' = [loc EXCEPT ![p] = NoLoc]
          ELSE /\ loc' = [loc EXCEPT ![p].keys = left, ![p].actions = actions]
               /\ UNCHANGED <<pc, ret>>
    /\ UNCHANGED <<store, blacklist, ncalls, issued, execLog, expired>>

\* lines 173-174: every other name goes to execute_action
Forward(p, name, arguments) ==
    /\ CanCall(p)
    /\ ~ValidationFails(name, arguments)
    /\ ~Intercepted(name)
    /\ name \notin {"approve_action", "list_pending_actions"}
    /\ ncalls' = ncalls + 1
    /\ execute_action(name, arguments, Origin("call_tool", NoToken, 0),
                      Call(ncalls + 1, name, arguments, "execute_action"))
    /\ UNCHANGED <<store, pc, loc, issued, expired>>

----------------------------------------------------------------------------
(* main.py: the HTTP tool endpoints *)

HttpPath(name) ==
    CASE name = "check_system_health" -> "GET /tools/health"
      [] name = "get_security_events" -> "GET /tools/security"
      [] name = "analyze_attack_patterns" -> "POST /tools/analyze"

\* tool_check_health, tool_get_security_events, tool_analyze_events
tool_read(name) ==
    /\ ncalls < MaxCalls
    /\ ncalls' = ncalls + 1
    /\ \E r \in ServiceResults(name) :
          ret' = Return(Call(ncalls + 1, HttpPath(name), EmptyArgs, "main"), r)
    /\ UNCHANGED <<store, blacklist, pc, loc, issued, execLog, expired>>

\* POST /tools/ban
tool_ban_ip(params) ==
    /\ ncalls < MaxCalls
    /\ ncalls' = ncalls + 1
    /\ \E up \in BOOLEAN :
          ban_ip(params.ip, params.hours * SECONDS_PER_HOUR, up,
                 Origin("http", NoToken, 0),
                 Call(ncalls + 1, "POST /tools/ban", params, "main"))
    /\ UNCHANGED <<store, pc, loc, issued, expired>>

----------------------------------------------------------------------------
(* Redis expiry *)

\* Redis removes a pending record whose TTL has elapsed
Expire(t) ==
    /\ store[t].present
    /\ store[t].ttl > 0
    /\ store' = [store EXCEPT ![t] = Absent]
    /\ expired' = expired \cup {[token |-> t, rec |-> store[t].rec, at |-> ncalls]}
    /\ UNCHANGED <<blacklist, pc, loc, ret, ncalls, issued, execLog>>

\* Redis removes a ban whose duration has elapsed
ExpireBan(i) ==
    /\ blacklist[i].present
    /\ blacklist[i].ttl > 0
    /\ blacklist' = [blacklist EXCEPT ![i] = Absent]
    /\ UNCHANGED <<store, pc, loc, ret, ncalls, issued, execLog, expired>>

----------------------------------------------------------------------------

\* the names and arguments clients send to call_tool
ToolCalls ==
    {<<"ban_suspicious_ip", a>> : a \in BanArguments}
      \cup {<<"approve_action", a>> : a \in ApproveArguments}
      \cup {<<n, EmptyArgs>> : n \in (KnownTools \ {"ban_suspicious_ip", "approve_action"})
                                      \cup {"delete_universe"}}

Next ==
    \/ \E p \in Tasks, c \in ToolCalls : ValidationError(p, c[1], c[2])
    \/ \E p \in Tasks, c \in ToolCalls, t \in Tokens, u \in Uuids :
          Submit(p, c[1], c[2], t, u)
    \/ \E p \in Tasks, c \in ToolCalls : ApproveGet(p, c[1], c[2])
    \/ \E p \in Tasks : ApproveDelete(p)
    \/ \E p \in Tasks : ApproveExec(p)
    \/ \E p \in Tasks, c \in ToolCalls : ListKeys(p, c[1], c[2])
    \/ \E p \in Tasks : ListGet(p)
    \/ \E p \in Tasks, c \in ToolCalls : Forward(p, c[1], c[2])
    \/ \E n \in ReadOnlyTools : tool_read(n)
    \/ \E params \in HttpBanParams : tool_ban_ip(params)
    \/ \E t \in Tokens : Expire(t)
    \/ \E i \in IpStrings : ExpireBan(i)

Spec == Init /\ [][Next]_vars

----------------------------------------------------------------------------
(* the store cannot be reached: the redis client raises ConnectionError, and
   no statement of call_tool is inside a try *)

Raised(call, error) == Return(call, [kind |-> "Raised", error |-> error])

\* line 131: setex raises, after the token was drawn and before the notice
SetexRaises(p, name, arguments) ==
    /\ CanCall(p)
    /\ ~ValidationFails(name, arguments)
    /\ Intercepted(name)
    /\ ncalls' = ncalls + 1
    /\ ret' = Raised(Call(ncalls + 1, name, arguments, "call_tool"),
                     "ConnectionError")
    /\ UNCHANGED <<store, blacklist, pc, loc, issued, execLog, expired>>

\* line 152: get raises
ApproveGetRaises(p, name, arguments) ==
    /\ CanCall(p)
    /\ ~ValidationFails(name, arguments)
    /\ ~Intercepted(name)
    /\ name = "approve_action"
    /\ ncalls' = ncalls + 1
    /\ ret' = Raised(Call(ncalls + 1, name, arguments, "call_tool"),
                     "ConnectionError")
    /\ UNCHANGED <<store, blacklist, pc, loc, issued, execLog, expired>>

\* line 157: delete raises, and line 159 is not reached
ApproveDeleteRaises(p) ==
    /\ pc[p] = "approve_delete"
    /\ ret' = Raised(Call(loc[p].id, "approve_action",
                          [token |-> TokenOf(loc[p].key)], "call_tool"),
                     "ConnectionError")
    /\ pc' = [pc EXCEPT ![p] = "idle"]
    /\ loc' = [loc EXCEPT ![p] = NoLoc]
    /\ UNCHANGED <<store, blacklist, ncalls, issued, execLog, expired>>

\* line 162: keys raises
ListKeysRaises(p, name, arguments) ==
    /\ CanCall(p)
    /\ ~ValidationFails(name, arguments)
    /\ ~Intercepted(name)
    /\ name = "list_pending_actions"
    /\ ncalls' = ncalls + 1
    /\ ret' = Raised(Call(ncalls + 1, name, arguments, "call_tool"),
                     "ConnectionError")
    /\ UNCHANGED <<store, blacklist, pc, loc, issued, execLog, expired>>

\* line 169: a get of the loop raises
ListGetRaises(p) ==
    /\ pc[p] = "list_get"
    /\ ret' = Raised(Call(loc[p].id, "list_pending_actions", EmptyArgs,
                          "call_tool"),
                     "ConnectionError")
    /\ pc' = [pc EXCEPT ![p] = "idle"]
    /\ loc' = [loc EXCEPT ![p] = NoLoc]
    /\ UNCHANGED <<store, blacklist, ncalls, issued, execLog, expired>>

StoreFailure ==
    \/ \E p \in Tasks, c \in ToolCalls : SetexRaises(p, c[1], c[2])
    \/ \E p \in Tasks, c \in ToolCalls : ApproveGetRaises(p, c[1], c[2])
    \/ \E p \in Tasks : ApproveDeleteRaises(p)
    \/ \E p \in Tasks, c \in ToolCalls : ListKeysRaises(p, c[1], c[2])
    \/ \E p \in Tasks : ListGetRaises(p)

NextFaults == Next \/ StoreFailure

\* the program with a store that can become unreachable
SpecFaults == Init /\ [][NextFaults]_vars

----------------------------------------------------------------------------
(* the Redis server is shared: a client other than call_tool sets a key
   under the approval prefix to a text that is no JSON *)

\* SET key text, without expiry; once per key, and before any submit used it
ForeignWrite(t) ==
    /\ ~store[t].present
    /\ Len(issued[t]) = 0
    /\ store' = [store EXCEPT ![t] = Entry(NotJson, 0, 0)]
    /\ UNCHANGED <<blacklist, pc, loc, ret, ncalls, issued, execLog, expired>>

NextForeign == Next \/ \E t \in Tokens : ForeignWrite(t)

\* the program beside another writer of the approval prefix
SpecForeign == Init /\ [][NextForeign]_vars

\* Redis removes a key once its TTL has run out, and the event loop runs a
\* handler that has begun until it returns
Fairness ==
    /\ \A t \in Tokens : WF_vars(Expire(t))
    /\ \A p \in Tasks :
          WF_vars(ApproveDelete(p)) /\ WF_vars(ApproveExec(p)) /\ WF_vars(ListGet(p))

FairSpec == Spec /\ Fairness

----------------------------------------------------------------------------
(* Vocabulary of the properties *)

\* what list_pending_actions answers when nothing interleaves with it
PendingView ==
    [t \in {TokenOf(k) : k \in RedisKeys} |-> json_loads(store[t].value)]

\* a record is stored under token t
Pending(t) == t \in Tokens /\ store[t].present

\* this step delivers the result of a call
Returns == ret'.id # ret.id

\* this step is the first step of an approve_action call on token t
ApproveBegins(t) ==
    /\ ncalls' = ncalls + 1
    /\ \/ /\ ret'.id = ncalls'
          /\ ret'.name = "approve_action"
          /\ DictGet(ret'.arguments, "token", NoToken) = t
       \/ \E p \in Tasks :
             pc[p] = "idle" /\ pc'[p] = "approve_delete" /\ loc'[p].key = Key(t)

\* this step ends a call with the invalid-token error and changes nothing else
Rejected ==
    /\ ret'.id = ncalls'
    /\ ret'.by = "call_tool"
    /\ ret'.result = [kind |-> "InvalidToken"]
    /\ UNCHANGED <<store, blacklist, execLog, issued, pc, loc>>

\* the execution e is ban_ip with the ip and the hours of the submitted action a
Ran(e, a) ==
    /\ a.name = "ban_suspicious_ip"
    /\ e.ip = DictGet(a.arguments, "ip", NoneIp)
    /\ e.duration = DictGet(a.arguments, "hours", 1) * SECONDS_PER_HOUR

\* the record submit stored last under t was executed by an approve_action
Consumed(t) ==
    /\ Len(issued[t]) > 0
    /\ \E e \in execLog :
          e.via = "approve" /\ e.token = t /\ e.rec = Len(issued[t])

\* the record submit stored last under t was removed by its TTL
ExpiredLast(t) ==
    /\ Len(issued[t]) > 0
    /\ \E x \in expired : x.token = t /\ x.rec = Len(issued[t])

\* an execution through approve_action runs the very record it read
RoundTripPerRecord ==
    \A e \in execLog :
        e.via = "approve" =>
            /\ e.rec \in 1..Len(issued[e.token])
            /\ Ran(e, issued[e.token][e.rec])

----------------------------------------------------------------------------
(* C1 *)

\* C1: at-most-once consumption. However many approve_action calls race on
\* one token, the stored action is executed once: no pending record is
\* executed a second time.
C1_AtMostOnceConsumption ==
    \A e \in execLog : e.via = "approve" => e.n = 1

----------------------------------------------------------------------------
(* C2 *)

C2_SubmitStep ==
    (Returns /\ ret'.name \in DANGEROUS_TOOLS) =>
        /\ ret'.by = "call_tool"
        /\ ret'.result.kind \in {"Pending", "ValidationError"}
        /\ UNCHANGED <<blacklist, execLog>>
        /\ ret'.result.kind = "Pending" =>
              LET t == ret'.result.token
              IN /\ \A u \in Tokens \ {t} : store'[u] = store[u]
                 /\ store'[t].present
                 /\ store'[t].ttl = APPROVAL_TTL
                 /\ json_loads(store'[t].value).name = ret'.name
                 /\ json_loads(store'[t].value).arguments = ret'.arguments

\* C2: no side effect on submit. A call of a dangerous tool invokes neither
\* execute_action nor ban_ip: it leaves the blacklist alone, and when it is
\* accepted its one effect is the pending record written under the returned
\* token, with the TTL; ban_ip is never reached from call_tool's forward path.
C2_NoSideEffectOnSubmit ==
    /\ [][C2_SubmitStep]_vars
    /\ [](\A e \in execLog : e.via # "call_tool")

C2_Witness ==
    /\ ret.name = "ban_suspicious_ip"
    /\ ret.result.kind = "Pending"
    /\ store[ret.result.token].present
    /\ json_loads(store[ret.result.token].value).arguments = [ip |-> IP6, hours |-> 2]
    /\ execLog = {}
    /\ \A i \in IpStrings : ~blacklist[i].present

----------------------------------------------------------------------------
(* C3 *)

\* C3: human-approval gate. Every invocation of ban_ip comes from an
\* approve_action that consumed a record which a submit had stored, and runs
\* that record's action.
C3_ApprovalGate ==
    \A e \in execLog :
        /\ e.via = "approve"
        /\ e.rec \in 1..Len(issued[e.token])
        /\ Ran(e, issued[e.token][e.rec])

----------------------------------------------------------------------------
(* C4 *)

C4_RejectedAfterExpiry ==
    \A t \in Tokens : (ExpiredLast(t) /\ ApproveBegins(t)) => Rejected

C4_NoLateExecution ==
    \A x \in expired :
        /\ \A e \in execLog :
              (e.via = "approve" /\ e.token = x.token /\ e.rec = x.rec)
                  => e.id <= x.at
        /\ \A p \in Tasks :
              (/\ pc[p] \in {"approve_delete", "approve_exec"}
               /\ loc[p].key = Key(x.token)
               /\ loc[p].raw.rec = x.rec)
                  => loc[p].id <= x.at

\* C4: expiry. Once Redis has removed a pending record by its TTL, an
\* approve_action on its token returns the invalid-token error and changes
\* nothing, and no approve_action begun after the expiry ever executes the
\* expired record.
C4_Expiry ==
    /\ [][C4_RejectedAfterExpiry]_vars
    /\ []C4_NoLateExecution

C4_Witness ==
    /\ ret.name = "approve_action"
    /\ ret.result.kind = "InvalidToken"
    /\ "token" \in DOMAIN ret.arguments
    /\ ExpiredLast(ret.arguments.token)
    /\ \E x \in expired : x.token = ret.arguments.token /\ x.at < ret.id
    /\ execLog = {}

----------------------------------------------------------------------------
(* C5 *)

\* the address strings of the inputs that are IPv4 or IPv6 literals:
\* "1.2.3.4" and "2001:db8:0:0:0:0:0:1"
Literals == {IP4, IP6}

C5_ValidationStep ==
    (/\ Returns
     /\ ret'.name = "ban_suspicious_ip"
     /\ DictGet(ret'.arguments, "ip", NoneIp) \notin Literals) =>
        /\ ret'.by = "call_tool"
        /\ ret'.result = [kind |-> "ValidationError",
                          ip |-> DictGet(ret'.arguments, "ip", NoneIp)]
        /\ ncalls' = ncalls + 1
        /\ PendingView' = PendingView
        /\ UNCHANGED <<store, issued, blacklist, execLog, pc, loc>>

\* C5: validation gate. A ban_suspicious_ip call whose ip is missing or is no
\* IPv4/IPv6 literal ends with the validation error naming the value, before
\* any token or store write: the pending entries are what they were.
C5_ValidationGate == [][C5_ValidationStep]_vars

C5_Witness ==
    /\ ret.name = "ban_suspicious_ip"
    /\ ret.result.kind = "ValidationError"
    /\ ret.result.ip = BadOctet
    /\ \E t \in Tokens : store[t].present /\ issued[t] # <<>>

----------------------------------------------------------------------------
(* C6 *)

C6_SafeStep ==
    (Returns /\ ret'.name \in ReadOnlyTools) =>
        /\ ret'.by = "execute_action"
        /\ ret'.result \in ServiceResults(ret'.name)
        /\ ncalls' = ncalls + 1
        /\ PendingView' = PendingView
        /\ UNCHANGED <<store, issued, pc, loc>>

\* C6: safe-path bypass. A call of check_system_health, get_security_events
\* or analyze_attack_patterns is answered by execute_action in the same step,
\* with no token and with every key under APPROVAL_PREFIX left as it was.
C6_SafePathBypass == [][C6_SafeStep]_vars

C6_Witness ==
    /\ ret.name = "analyze_attack_patterns"
    /\ ret.by = "execute_action"
    /\ ret.result.kind = "Analysis"
    /\ \E t \in Tokens : store[t].present

----------------------------------------------------------------------------
(* C7 *)

C7_ApproveSteps ==
    /\ \A t \in Tokens \cup {NoToken} :
          /\ (ApproveBegins(t) /\ ~Pending(t)) => Rejected
          /\ (ApproveBegins(t) /\ Pending(t)) =>
                \E p \in Tasks :
                    /\ pc[p] = "idle" /\ pc'[p] = "approve_delete"
                    /\ loc'[p].raw = store[t]
          /\ (t \in Tokens /\ Consumed(t) /\ ApproveBegins(t)) => Rejected
    /\ \A p \in Tasks :
          /\ (pc[p] = "approve_delete" /\ pc'[p] # pc[p]) =>
                /\ pc'[p] = "approve_exec"
                /\ ~store'[TokenOf(loc[p].key)].present
          /\ (pc[p] = "approve_exec" /\ pc'[p] # pc[p]) =>
                \E e \in execLog' \ execLog :
                    /\ e.via = "approve"
                    /\ e.token = TokenOf(loc[p].key)
                    /\ e.rec = loc[p].raw.rec

\* C7: idempotent re-approval. An approve_action that finds the record goes
\* on to delete the key and execute it; an approve_action on the token of a
\* record already executed, or on any absent key, returns the invalid-token
\* error, executes nothing and leaves the store as it was, so repeating it
\* gives the same outcome.
C7_IdempotentReapproval == [][C7_ApproveSteps]_vars

C7_Witness ==
    /\ ret.name = "approve_action"
    /\ ret.result.kind = "InvalidToken"
    /\ "token" \in DOMAIN ret.arguments
    /\ Consumed(ret.arguments.token)
    /\ \E e \in execLog : e.token = ret.arguments.token /\ e.id < ret.id
    /\ expired = {}

----------------------------------------------------------------------------
(* C8 *)

\* this result answers a call_tool call whose name is no tool of list_tools
UnknownName(r) == r.id > 0 /\ r.by # "main" /\ r.name \notin KnownTools

C8_UnknownStep ==
    (Returns /\ UnknownName(ret')) =>
        /\ ret'.by = "execute_action"
        /\ ret'.result = [kind |-> "SystemError", error |-> "Unknown tool",
                          tool |-> ret'.name]
        /\ ncalls' = ncalls + 1
        /\ UNCHANGED <<store, blacklist, issued, execLog, pc, loc>>

----------------------------------------------------------------------------
(* C9 *)

\* C9: binding of token to action. For every submit that returned token t,
\* an approve_action(t) that executes runs that submit's name and arguments,
\* and list_pending_actions shows them under t.
C9_TokenBindsAction ==
    /\ \A e \in execLog :
          e.via = "approve" =>
              \A k \in 1..Len(issued[e.token]) : Ran(e, issued[e.token][k])
    /\ \A t \in DOMAIN PendingView :
          \A k \in 1..Len(issued[t]) :
              /\ PendingView[t].name = issued[t][k].name
              /\ PendingView[t].arguments = issued[t][k].arguments

----------------------------------------------------------------------------
(* C10 *)

\* C10: token non-reuse. A submit never writes under a key that holds or
\* has held a pending action: no token is issued twice.
C10_TokenNonReuse ==
    \A t \in Tokens : Len(issued[t]) <= 1

----------------------------------------------------------------------------
(* C11 *)

\* the call that returned last is an approve_action on t whose ban_ip failed,
\* and the record it ran is the one submit stored last under t
FailedLast(t) ==
    /\ ret.name = "approve_action"
    /\ ret.result.kind = "BanError"
    /\ DictGet(ret.arguments, "token", NoToken) = t
    /\ \E e \in execLog :
          /\ e.via = "approve" /\ e.id = ret.id
          /\ e.token = t /\ e.rec = Len(issued[t])

C11_FailureStep ==
    /\ \A p \in Tasks :
          (pc[p] = "approve_exec" /\ pc'[p] # pc[p]
                                  /\ ret'.result.kind = "BanError") =>
              /\ ret'.id = loc[p].id
              /\ ret'.by = "execute_action"
              /\ pc'[p] = "idle"
              /\ loc'[p] = NoLoc
              /\ Cardinality(execLog' \ execLog) = 1
              /\ UNCHANGED <<store, blacklist, issued>>
    /\ \A t \in Tokens :
          /\ FailedLast(t) => ~Pending(t)
          /\ (FailedLast(t) /\ ApproveBegins(t)) => Rejected

\* C11: consumption is final. When the execution of an approved action
\* fails, the call returns the error as its result and ends: the record is
\* not written back, the key stays absent, and the next approve_action on
\* the token gets the invalid-token error and executes nothing.
C11_ConsumptionIsFinal == [][C11_FailureStep]_vars

C11_Witness ==
    \E t \in Tokens :
        /\ FailedLast(t)
        /\ ~Pending(t)
        /\ \A i \in IpStrings : ~blacklist[i].present

----------------------------------------------------------------------------
(* C12 *)

\* C12: deletion is the authority. An approve_action call whose delete
\* removed nothing, because another approve consumed the key or the TTL
\* expired between its get and its delete, executes nothing: the step after
\* such a delete adds no entry to the execution log and bans no address.
C12_DeletionIsAuthority ==
    [][\A p \in Tasks :
          (pc[p] = "approve_exec" /\ pc'[p] # pc[p] /\ loc[p].removed = 0) =>
              UNCHANGED <<execLog, blacklist>>]_vars

----------------------------------------------------------------------------
(* C16 *)

\* C16: list_pending_actions under interleaving. When a key enumerated by
\* keys is consumed or expires before its get, the listing still completes:
\* no list_pending_actions call ends in an exception raised out of call_tool.
C16_ListingCompletes ==
    ret.name = "list_pending_actions" => ret.result.kind # "Raised"

----------------------------------------------------------------------------
(* C18 *)

\* the operation a record names is dangerous and its address passed validate_ip
WellFormedRecord(value) ==
    LET action == json_loads(value)
    IN /\ action.name \in DANGEROUS_TOOLS
       /\ action.name \notin ReadOnlyTools \cup
                             {"approve_action", "list_pending_actions"}
       /\ "ip" \in DOMAIN action.arguments
       /\ validate_ip(action.arguments["ip"])
       /\ action.arguments["ip"] \in Literals

\* C18: stored-record invariant. Every record under APPROVAL_PREFIX names a
\* member of DANGEROUS_TOOLS and carries an ip that passed validate_ip, so
\* does every payload an approve_action has read and is about to execute,
\* and every execution through approve_action banned a validated address.
C18_StoredRecordInvariant ==
    /\ \A t \in Tokens : store[t].present => WellFormedRecord(store[t].value)
    /\ \A p \in Tasks :
          pc[p] \in {"approve_delete", "approve_exec"} =>
              WellFormedRecord(loc[p].raw.value)
    /\ \A e \in execLog : e.via = "approve" => e.ip \in Literals

C18_Witness ==
    /\ \E t \in Tokens : store[t].present
    /\ \E e \in execLog : e.via = "approve" /\ e.id = ret.id

----------------------------------------------------------------------------
(* C14 *)

\* no submit ever stored a record under t
NeverIssued(t) == t = NoToken \/ Len(issued[t]) = 0

\* this step is the whole approve_action call: after its get it returns
\* the one invalid-token result, with no delete and no execution
C14_OneGetOnly ==
    /\ ret'.id = ncalls'
    /\ ret'.name = "approve_action"
    /\ ret'.by = "call_tool"
    /\ ret'.result = [kind |-> "InvalidToken"]
    /\ DOMAIN ret'.result = {"kind"}
    /\ UNCHANGED <<store, blacklist, execLog, issued, expired, pc, loc>>

C14_CauseSteps ==
    \A t \in Tokens \cup {NoToken} :
        /\ (NeverIssued(t) /\ ApproveBegins(t)) => C14_OneGetOnly
        /\ (t \in Tokens /\ Consumed(t) /\ ApproveBegins(t)) => C14_OneGetOnly
        /\ (t \in Tokens /\ ExpiredLast(t) /\ ApproveBegins(t)) => C14_OneGetOnly

\* C14: InvalidToken is indistinguishable by cause. Whether the token never
\* existed, was already consumed or expired, approve_action ends in the one
\* step of its get with the same result value, which carries nothing but
\* the fixed message: no delete, no execution, no change of any state.
C14_IndistinguishableByCause == [][C14_CauseSteps]_vars

C14_Witness ==
    /\ ret.name = "approve_action"
    /\ ret.result = [kind |-> "InvalidToken"]
    /\ NeverIssued(DictGet(ret.arguments, "token", NoToken))
    /\ \E t \in Tokens : Consumed(t) \/ ExpiredLast(t)

----------------------------------------------------------------------------
(* C17 *)

\* the r-th record submit stored under t is in the store
Stored(t, r) == store[t].present /\ store[t].rec = r

\* the r-th record stored under t was executed by an approve_action
ConsumedRecord(t, r) ==
    \E e \in execLog : e.via = "approve" /\ e.token = t /\ e.rec = r

\* the r-th record stored under t was removed by its TTL
ExpiredRecord(t, r) == \E x \in expired : x.token = t /\ x.rec = r

\* C17: every pending action eventually leaves PENDING. No record is ever
\* stored without an expiry, and under fair store expiry every record that
\* is pending is eventually either consumed by approve_action or expired.
C17_EventuallyLeavesPending ==
    /\ [](\A t \in Tokens : store[t].present => store[t].ttl > 0)
    /\ \A t \in Tokens : \A r \in 1..MaxCalls :
          Stored(t, r) ~> (ConsumedRecord(t, r) \/ ExpiredRecord(t, r))

----------------------------------------------------------------------------
(* C13 *)

\* C13: store failures at the dispatch boundary. When setex, get, delete
\* or keys fails, the call ends with a structured error result and not with
\* an exception raised out of call_tool, no record is written or changed,
\* and nothing is executed.
C13_StoreFailureIsStructured ==
    [][StoreFailure =>
          /\ ret'.id # ret.id
          /\ ret'.result.kind # "Raised"
          /\ UNCHANGED <<store, issued, execLog, blacklist>>]_vars

----------------------------------------------------------------------------
(* C15 *)

\* C15: list_pending_actions tolerates bad entries. A value under the
\* approval prefix that cannot be deserialized is skipped: no listing ends
\* with the decoding error of one entry.
C15_ListingSkipsBadEntries ==
    ret.name = "list_pending_actions" =>
        ret.result # [kind |-> "Raised", error |-> "JSONDecodeError"]

====
